---- MODULE Spec2Model ----
(***************************************************************************)
(* cstring-array: CStringArray owns a Vec<CString> and a synchronised,     *)
(* null-terminated Vec<*const c_char> (the char** handed to C).            *)
(*                                                                         *)
(* The heap is a map from block addresses to blocks.  A CString is the     *)
(* address of its byte buffer; the pointer table is the address of the     *)
(* Vec's buffer plus the Vec's logical length.  The caller holds an array  *)
(* (arr), at most one more (other) and at most one Vec<CString>.           *)
(***************************************************************************)
EXTENDS Integers, Sequences, FiniteSets, TLC

(* ---- bounds of the model ---- *)
MaxLen == 2          \* longest input sequence the caller passes
MaxChars == 3        \* most characters in one input sequence, all texts together

(* ---- program constants ---- *)
NULL == 0            \* std::ptr::null()
NUL == 0             \* the terminator byte

\* one block per string, one for the table, one spare
NumAddrs == MaxLen + 2
Addr == 1..NumAddrs

(* ---- texts: Rust Strings are UTF-8 byte sequences ---- *)
\* code points used by the caller: NUL, 'a', U+00E9 (two bytes in UTF-8)
Chars == {0, 97, 233}

Utf8(c) == IF c < 128 THEN <<c>> ELSE <<192 + (c \div 64), 128 + (c % 64)>>

RECURSIVE Encode(_)
Encode(t) == IF t = <<>> THEN <<>> ELSE Utf8(Head(t)) \o Encode(Tail(t))

SeqsUpTo(S, n) == UNION {[1..k -> S] : k \in 0..n}

\* sequences of exactly n texts over the characters C, at most budget
\* characters in all
RECURSIVE TextSeqs(_, _, _)
TextSeqs(C, n, budget) ==
    IF n = 0 THEN {<<>>}
    ELSE UNION {{<<t>> \o rest : rest \in TextSeqs(C, n - 1, budget - Len(t))} :
                t \in SeqsUpTo(C, budget)}

EncodeAll(ts) == [i \in 1..Len(ts) |-> Encode(ts[i])]

\* the Vec<String> values the caller passes
Inputs == {EncodeAll(ts) : ts \in UNION {TextSeqs(Chars, n, MaxChars) : n \in 0..MaxLen}}
\* those without a terminator byte in any element
ValidInputs == {S \in Inputs : \A i \in 1..Len(S) : \A k \in 1..Len(S[i]) : S[i][k] # NUL}

Range(s) == {s[i] : i \in 1..Len(s)}

(* ---- std::ffi::CString ---- *)
\* memchr(0, bytes): zero-based offset of the first NUL byte, or -1
RECURSIVE MemchrFrom(_, _)
MemchrFrom(bytes, i) ==
    IF i > Len(bytes) THEN -1
    ELSE IF bytes[i] = NUL THEN i - 1
    ELSE MemchrFrom(bytes, i + 1)

\* faulty variant: the offset counted in characters, not bytes
MemchrInChars(bytes) ==
    LET p == MemchrFrom(bytes, 1) IN
    IF p = -1 THEN -1
    ELSE Cardinality({k \in 1..p : bytes[k] < 128 \/ bytes[k] >= 192})

Memchr(bytes) == MemchrFrom(bytes, 1)

\* faulty variant: no terminator is appended
CStringNewUnterminated(bytes) ==
    LET pos == Memchr(bytes) IN
    IF pos # -1 THEN [ok |-> FALSE, nul_position |-> pos]
    ELSE [ok |-> TRUE, data |-> bytes]

\* CString::new(bytes): Err(NulError(pos, bytes)) on an interior NUL, else
\* the bytes with one terminator appended
CStringNew(bytes) ==
    LET pos == Memchr(bytes) IN
    IF pos # -1 THEN [ok |-> FALSE, nul_position |-> pos]
    ELSE [ok |-> TRUE, data |-> Append(bytes, NUL)]

(* ---- heap ---- *)
FreeBlock == [kind |-> "free"]
BytesBlock(d) == [kind |-> "bytes", data |-> d]
TableBlock(d) == [kind |-> "table", data |-> d]

FreeAddrs(h) == {a \in DOMAIN h : h[a].kind = "free"}
LiveAddrs(h) == DOMAIN h \ FreeAddrs(h)

\* the k lowest of a set of addresses
Lowest(A, k) == {a \in A : Cardinality({b \in A : b < a}) < k}

\* what the allocator may return for n successive allocations: n free
\* blocks in ascending address order, passing over at most one free block
AllocOrders(h, n) ==
    {s \in [1..n -> Lowest(FreeAddrs(h), n + 1)] : \A i, j \in 1..n : i < j => s[i] < s[j]}

\* faulty variant: the strings are forgotten instead of freed
FreeAllForgetting(h, addrs) == h

\* dropping a Vec<CString>: every string's buffer is freed
RECURSIVE FreeAll(_, _)
FreeAll(h, addrs) ==
    IF addrs = <<>> THEN h
    ELSE FreeAll([h EXCEPT ![Head(addrs)] = FreeBlock], Tail(addrs))

\* the bytes of each CString of a Vec<CString>, terminator included
Contents(h, v) == [i \in 1..Len(v) |-> h[v[i]].data]

Ret(op, kind) == [op |-> op, kind |-> kind, err |-> "none", pos |-> -1, idx |-> -1, val |-> <<>>]
ErrEmptyArray(op) == [Ret(op, "Err") EXCEPT !.err = "EmptyArray"]
ErrNulError(op, p) == [Ret(op, "Err") EXCEPT !.err = "NulError", !.pos = p]

VARIABLES heap, arr, cargs, input, ret, other, handed, threads
vars == <<heap, arr, cargs, input, ret, other, handed, threads>>

NoArray == [state |-> "none", strings |-> <<>>, pbuf |-> NULL, plen |-> 0]
Released == [NoArray EXCEPT !.state = "released"]
NoArgs == [held |-> FALSE, v |-> <<>>]
NoInput == [path |-> "none", texts |-> <<>>, cstrs |-> <<>>, addrs |-> <<>>, texts2 |-> <<>>]

\* the threads that may hold the array or a reference to it
Threads == {"main", "worker"}

\* a thread that is not inside a call
Idle == [pc |-> "idle", op |-> "none", idx |-> -1, p |-> NULL, val |-> <<>>]

\* the array is with the main thread, no call is running, nothing was written
\* through the pointer from as_mut_ptr
NoThreads == [th |-> [t \in Threads |-> Idle], owner |-> "main", wrote |-> <<>>]

Init ==
    /\ heap = [a \in Addr |-> FreeBlock]
    /\ arr = NoArray
    /\ cargs = NoArgs
    /\ input = NoInput
    /\ ret = Ret("init", "none")
    /\ other = NoArray
    /\ handed = {}
    /\ threads = NoThreads



\* the caller has constructed nothing yet
Fresh == arr.state = "none" /\ input.path = "none" /\ ~cargs.held
\* the caller's slot holds no array
Vacant == arr.state \in {"none", "released"}

(* ---- CStringArray::new / from_cstrings ---- *)
\* strings.into_iter().map(CString::new).collect::<Result<_, _>>(): converts
\* in order, stops at the first Err and drops the CStrings built so far
\* faulty variant: the CStrings built before the failing element are kept
RECURSIVE CollectKeeping(_, _, _, _)
CollectKeeping(h, S, addrs, acc) ==
    IF S = <<>> THEN [ok |-> TRUE, heap |-> h, strings |-> acc, nul_position |-> -1]
    ELSE LET r == CStringNew(Head(S)) IN
         IF ~r.ok
         THEN [ok |-> FALSE, heap |-> h, strings |-> <<>>,
               nul_position |-> r.nul_position]
         ELSE CollectKeeping([h EXCEPT ![Head(addrs)] = BytesBlock(r.data)],
                             Tail(S), Tail(addrs), Append(acc, Head(addrs)))

\* faulty variant: every element is converted and the last failure is reported
RECURSIVE CollectReportingLast(_, _, _, _)
CollectReportingLast(h, S, addrs, acc) ==
    IF S = <<>> THEN [ok |-> TRUE, heap |-> h, strings |-> acc, nul_position |-> -1]
    ELSE LET r == CStringNew(Head(S))
             rest == CollectReportingLast(h, Tail(S), addrs, <<>>)
         IN  IF ~rest.ok THEN rest
             ELSE IF ~r.ok
             THEN [ok |-> FALSE, heap |-> h, strings |-> <<>>,
                   nul_position |-> r.nul_position]
             ELSE [ok |-> TRUE,
                   heap |-> [a \in DOMAIN h |->
                               IF \E i \in 1..Len(S) : addrs[i] = a
                               THEN BytesBlock(Append(S[CHOOSE i \in 1..Len(S) : addrs[i] = a], NUL))
                               ELSE h[a]],
                   strings |-> acc \o SubSeq(addrs, 1, Len(S)),
                   nul_position |-> -1]

\* collect::<Result<Vec<CString>, _>>(): elements are converted front to
\* back; the first failure ends the conversion and drops what was built
RECURSIVE Collect(_, _, _, _)
Collect(h, S, addrs, acc) ==
    IF S = <<>> THEN [ok |-> TRUE, heap |-> h, strings |-> acc, nul_position |-> -1]
    ELSE LET r == CStringNew(Head(S)) IN
         IF ~r.ok
         THEN [ok |-> FALSE, heap |-> FreeAll(h, acc), strings |-> <<>>,
               nul_position |-> r.nul_position]
         ELSE Collect([h EXCEPT ![Head(addrs)] = BytesBlock(r.data)],
                      Tail(S), Tail(addrs), Append(acc, Head(addrs)))

\* CString::as_ptr: the address of the first byte of the buffer
CStrAsPtr(s) == s

\* faulty variant: the slots are filled back to front
MakePointersReversed(strings) ==
    Append([i \in 1..Len(strings) |-> CStrAsPtr(strings[Len(strings) + 1 - i])], NULL)

\* faulty variant: the sentinel is not pushed
MakePointersNoSentinel(strings) ==
    [i \in 1..Len(strings) |-> CStrAsPtr(strings[i])]

\* Vec::with_capacity(n + 1); extend(iter().map(as_ptr)); push(null())
MakePointers(strings) ==
    Append([i \in 1..Len(strings) |-> CStrAsPtr(strings[i])], NULL)

\* Self { strings, pointers }
Alive(strings, tbl, pointers) ==
    [state |-> "alive", strings |-> strings, pbuf |-> tbl, plen |-> Len(pointers)]

\* faulty variant: the empty input is not rejected
newNoEmptyCheck(h, S, addrs) ==
    LET c == Collect(h, S, addrs, <<>>) IN
    IF ~c.ok
    THEN [heap |-> c.heap, arr |-> NoArray,
          ret |-> ErrNulError("new", c.nul_position)]
    ELSE LET tbl == addrs[Len(S) + 1] IN
         [heap |-> [c.heap EXCEPT ![tbl] = TableBlock(MakePointers(c.strings))],
          arr |-> Alive(c.strings, tbl, MakePointers(c.strings)),
          ret |-> Ret("new", "Ok")]

\* CStringArray::new(strings); addrs are the blocks the allocator hands out
new(h, S, addrs) ==
    IF S = <<>> THEN [heap |-> h, arr |-> NoArray, ret |-> ErrEmptyArray("new")]
    ELSE LET c == Collect(h, S, addrs, <<>>) IN
         IF ~c.ok
         THEN [heap |-> c.heap, arr |-> NoArray,
               ret |-> ErrNulError("new", c.nul_position)]
         ELSE LET tbl == addrs[Len(S) + 1] IN
              [heap |-> [c.heap EXCEPT ![tbl] = TableBlock(MakePointers(c.strings))],
               arr |-> Alive(c.strings, tbl, MakePointers(c.strings)),
               ret |-> Ret("new", "Ok")]

\* faulty variant: every string is rebuilt from its bytes with the terminator, which
\* leaves it with two
RECURSIVE Reterminate(_, _)
Reterminate(h, v) ==
    IF v = <<>> THEN h
    ELSE Reterminate([h EXCEPT ![Head(v)] = BytesBlock(Append(h[Head(v)].data, NUL))],
                     Tail(v))

from_cstringsReencoding(h, v, tbl) ==
    IF v = <<>> THEN [heap |-> h, arr |-> NoArray, ret |-> ErrEmptyArray("from_cstrings")]
    ELSE [heap |-> [Reterminate(h, v) EXCEPT ![tbl] = TableBlock(MakePointers(v))],
          arr |-> Alive(v, tbl, MakePointers(v)),
          ret |-> Ret("from_cstrings", "Ok")]

\* faulty variant: the strings are stored back to front
from_cstringsReversed(h, v, tbl) ==
    LET w == [i \in 1..Len(v) |-> v[Len(v) + 1 - i]] IN
    IF v = <<>> THEN [heap |-> h, arr |-> NoArray, ret |-> ErrEmptyArray("from_cstrings")]
    ELSE [heap |-> [h EXCEPT ![tbl] = TableBlock(MakePointers(w))],
          arr |-> Alive(w, tbl, MakePointers(w)),
          ret |-> Ret("from_cstrings", "Ok")]

\* faulty variant: an empty vector is accepted
from_cstringsNoEmptyCheck(h, v, tbl) ==
    [heap |-> [h EXCEPT ![tbl] = TableBlock(MakePointers(v))],
     arr |-> Alive(v, tbl, MakePointers(v)),
     ret |-> Ret("from_cstrings", "Ok")]

\* faulty variant: the table is built without the null sentinel
from_cstringsUnterminated(h, v, tbl) ==
    IF v = <<>> THEN [heap |-> h, arr |-> NoArray, ret |-> ErrEmptyArray("from_cstrings")]
    ELSE [heap |-> [h EXCEPT ![tbl] = TableBlock(MakePointersNoSentinel(v))],
          arr |-> Alive(v, tbl, MakePointersNoSentinel(v)),
          ret |-> Ret("from_cstrings", "Ok")]

\* faulty variant: the strings are moved into one another's buffers, so
\* that the contents keep their order but not their addresses
from_cstringsRelocating(h, v, tbl) ==
    IF v = <<>> THEN [heap |-> h, arr |-> NoArray, ret |-> ErrEmptyArray("from_cstrings")]
    ELSE LET n == Len(v)
             w == [i \in 1..n |-> v[n + 1 - i]]
             h2 == [a \in DOMAIN h |->
                      IF \E i \in 1..n : w[i] = a
                      THEN h[v[CHOOSE i \in 1..n : w[i] = a]]
                      ELSE h[a]]
         IN  [heap |-> [h2 EXCEPT ![tbl] = TableBlock(MakePointers(w))],
              arr |-> Alive(w, tbl, MakePointers(w)),
              ret |-> Ret("from_cstrings", "Ok")]

\* CStringArray::from_cstrings(strings); tbl is the block for the table
from_cstrings(h, v, tbl) ==
    IF v = <<>> THEN [heap |-> h, arr |-> NoArray, ret |-> ErrEmptyArray("from_cstrings")]
    ELSE [heap |-> [h EXCEPT ![tbl] = TableBlock(MakePointers(v))],
          arr |-> Alive(v, tbl, MakePointers(v)),
          ret |-> Ret("from_cstrings", "Ok")]

TextInput(S) == [NoInput EXCEPT !.path = "texts", !.texts = S]
CStrInput(h, v) == [NoInput EXCEPT !.path = "cstrings", !.cstrs = Contents(h, v), !.addrs = v]

\* Result::expect: the Ok value, or a panic that unwinds to the caller
Expect(r) == IF r.kind = "Ok" THEN r ELSE Ret(r.op, "Panic")

\* a call of new from the entry point op; wrap is what the entry point does
\* with the Result
CallNew(op, S, unwraps) ==
    /\ \E addrs \in AllocOrders(heap, Len(S) + 1) :
          LET r == new(heap, S, addrs)
              res == [r.ret EXCEPT !.op = op]
          IN  /\ heap' = r.heap
              /\ arr' = r.arr
              /\ ret' = IF unwraps THEN Expect(res) ELSE res
    /\ input' = TextInput(S)
    /\ handed' = {}
    /\ UNCHANGED threads
    /\ UNCHANGED <<cargs, other>>

\* a call of from_cstrings from the entry point op, consuming the caller's Vec
CallFromCStrings(op, unwraps) ==
    /\ Vacant
    /\ cargs.held
    /\ \E tbl \in FreeAddrs(heap) :
          LET r == from_cstrings(heap, cargs.v, tbl)
              res == [r.ret EXCEPT !.op = op]
          IN  /\ heap' = r.heap
              /\ arr' = r.arr
              /\ ret' = IF unwraps THEN Expect(res) ELSE res
    /\ input' = CStrInput(heap, cargs.v)
    /\ cargs' = NoArgs
    /\ handed' = {}
    /\ UNCHANGED threads
    /\ UNCHANGED other

New == Fresh /\ \E S \in Inputs : CallNew("new", S, FALSE)

FromCStrings == CallFromCStrings("from_cstrings", FALSE)

(* ---- TryFrom / FromIterator (traits.rs) ---- *)
\* faulty variant: every text loses its last byte
OwnedFromTruncated(S) == [i \in 1..Len(S) |-> SubSeq(S[i], 1, Len(S[i]) - 1)]

\* String::from(&str) on every element, collected: a copy of the bytes
OwnedFrom(S) == [i \in 1..Len(S) |-> [k \in 1..Len(S[i]) |-> S[i][k]]]

\* faulty variant: the elements come out back to front
ToVecReversed(S) == [i \in 1..Len(S) |-> S[Len(S) + 1 - i]]

\* <[String; N]>::to_vec: a clone of every element, in order
ToVec(S) == [i \in 1..Len(S) |-> S[i]]

TryFromVecString == Fresh /\ \E S \in Inputs : CallNew("try_from_vec_string", S, FALSE)

TryFromVecStr == Fresh /\ \E S \in Inputs : CallNew("try_from_vec_str", OwnedFrom(S), FALSE)

TryFromArrayString == Fresh /\ \E S \in Inputs : CallNew("try_from_array_string", ToVec(S), FALSE)

TryFromArrayStr == Fresh /\ \E S \in Inputs : CallNew("try_from_array_str", OwnedFrom(S), FALSE)

TryFromVecCString == CallFromCStrings("try_from_vec_cstring", FALSE)

\* iter.into_iter().collect::<Vec<_>>() then new(..).expect(..)
FromIterString == Fresh /\ \E S \in Inputs : CallNew("from_iter_string", ToVec(S), TRUE)

FromIterCString == CallFromCStrings("from_iter_cstring", TRUE)

(* ---- the caller's Vec<CString> ---- *)
\* the caller builds a Vec<CString> out of terminator-free texts
BuildCStrings ==
    /\ Fresh
    /\ \E S \in ValidInputs : \E addrs \in AllocOrders(heap, Len(S)) :
          LET c == Collect(heap, S, addrs, <<>>) IN
          /\ heap' = c.heap
          /\ cargs' = [held |-> TRUE, v |-> c.strings]
    /\ ret' = Ret("build", "none")
    /\ UNCHANGED <<arr, input, other, handed, threads>>

\* the caller drops the Vec<CString> it holds
DropCStrings ==
    /\ cargs.held
    /\ heap' = FreeAll(heap, cargs.v)
    /\ cargs' = NoArgs
    /\ ret' = Ret("drop_args", "none")
    /\ UNCHANGED <<arr, input, other, handed, threads>>

(* ---- accessors ---- *)
\* faulty variant: the sentinel slot is counted
lenOfPointers(a) == a.plen

len(a) == Len(a.strings)

is_empty(a) == Len(a.strings) = 0

\* self.pointers.as_ptr()
as_ptr(a) == a.pbuf

\* faulty variant: the address of the strings is returned
as_mut_ptrOfStrings(a) == a.strings[1]

\* self.pointers.as_mut_ptr()
as_mut_ptr(a) == a.pbuf

\* as_slice(&self) -> &[CString]: the owned strings, in order
as_slice(a) == a.strings

\* faulty variant: the traversal runs back to front
iterReversed(a) == [i \in 1..Len(a.strings) |-> a.strings[Len(a.strings) + 1 - i]]

\* self.strings.iter(): the items a full traversal yields
iter(a) == [i \in 1..Len(a.strings) |-> a.strings[i]]

\* AsRef<[CString]>
as_ref(a) == as_slice(a)

\* <[T]>::get: Some(&v[index]) when index < v.len(), else None (zero-based)
VecGet(v, index) == IF index < Len(v) THEN <<v[index + 1]>> ELSE <<>>

\* faulty variant: the index is taken as one-based
getOneBased(a, index) ==
    IF 1 <= index /\ index <= Len(a.strings) THEN <<a.strings[index]>> ELSE <<>>

get(a, index) == VecGet(a.strings, index)

(* ---- foreign code reading through the raw pointer ---- *)
\* *ptr.offset(i)
Slot(h, base, i) == h[base].data[i + 1]

\* CStr::from_ptr(p).to_bytes(): the bytes before the first terminator
CStrBytes(h, p) == SubSeq(h[p].data, 1, MemchrFrom(h[p].data, 1))

\* while !(*current).is_null() { current = current.offset(1) }: the number
\* of slots visited
RECURSIVE ScanFrom(_, _, _)
ScanFrom(h, base, i) ==
    IF Slot(h, base, i) = NULL THEN i ELSE ScanFrom(h, base, i + 1)

Get ==
    /\ arr.state = "alive"
    /\ \E index \in 0..(MaxLen + 1) :
          LET r == get(arr, index) IN
          ret' = [Ret("get", IF r = <<>> THEN "None" ELSE "Some")
                    EXCEPT !.idx = index, !.val = r]
    /\ UNCHANGED <<heap, arr, cargs, input, other, handed, threads>>

\* faulty variant: an index past the end wraps around instead of panicking
indexWrapping(a, i) == <<as_slice(a)[(i % Len(as_slice(a))) + 1]>>

\* &self.as_slice()[index]: the element, or a panic when out of range
index(a, i) == IF i < Len(as_slice(a)) THEN <<as_slice(a)[i + 1]>> ELSE <<>>

ReadOnly == UNCHANGED <<heap, arr, cargs, input, other, threads>>

AsPtr ==
    /\ arr.state = "alive"
    /\ ret' = [Ret("as_ptr", "Ptr") EXCEPT !.val = <<as_ptr(arr)>>]
    /\ handed' = handed \cup {as_ptr(arr)}
    /\ ReadOnly

AsMutPtr ==
    /\ arr.state = "alive"
    /\ ret' = [Ret("as_mut_ptr", "Ptr") EXCEPT !.val = <<as_mut_ptr(arr)>>]
    /\ handed' = handed \cup {as_mut_ptr(arr)}
    /\ ReadOnly

CallLen ==
    /\ arr.state = "alive"
    /\ ret' = [Ret("len", "usize") EXCEPT !.val = <<len(arr)>>]
    /\ UNCHANGED handed
    /\ ReadOnly

CallIsEmpty ==
    /\ arr.state = "alive"
    /\ ret' = [Ret("is_empty", "bool") EXCEPT !.val = <<is_empty(arr)>>]
    /\ UNCHANGED handed
    /\ ReadOnly

\* array.iter().collect::<Vec<&CString>>(), and for s in &array
Iter ==
    /\ arr.state = "alive"
    /\ ret' = [Ret("iter", "Refs") EXCEPT !.val = iter(arr)]
    /\ UNCHANGED handed
    /\ ReadOnly

\* IntoIterator for &CStringArray: self.iter()
into_iter_ref(a) == iter(a)

\* for s in &array
IntoIterRef ==
    /\ arr.state = "alive"
    /\ ret' = [Ret("into_iter_ref", "Refs") EXCEPT !.val = into_iter_ref(arr)]
    /\ UNCHANGED handed
    /\ ReadOnly

Index ==
    /\ arr.state = "alive"
    /\ \E i \in 0..(MaxLen + 1) :
          LET r == index(arr, i) IN
          ret' = [Ret("index", IF r = <<>> THEN "Panic" ELSE "Ref")
                    EXCEPT !.idx = i, !.val = r]
    /\ UNCHANGED handed
    /\ ReadOnly

AsRef ==
    /\ arr.state = "alive"
    /\ ret' = [Ret("as_ref", "Refs") EXCEPT !.val = as_ref(arr)]
    /\ UNCHANGED handed
    /\ ReadOnly

(* ---- a second array: Clone, PartialEq, Hash (traits.rs) ---- *)
\* faulty variant: the bytes are moved out of the source string
RECURSIVE CloneStringsMoving(_, _, _)
CloneStringsMoving(h, v, addrs) ==
    IF v = <<>> THEN h
    ELSE CloneStringsMoving([h EXCEPT ![Head(addrs)] = BytesBlock(h[Head(v)].data),
                                      ![Head(v)] = BytesBlock(<<NUL>>)],
                            Tail(v), Tail(addrs))

\* <[CString]>::to_vec: every string is copied into a buffer of its own
RECURSIVE CloneStrings(_, _, _)
CloneStrings(h, v, addrs) ==
    IF v = <<>> THEN h
    ELSE CloneStrings([h EXCEPT ![Head(addrs)] = BytesBlock(h[Head(v)].data)],
                      Tail(v), Tail(addrs))

\* faulty variant: the clone shares the original's strings and table
cloneShallow(h, a, addrs) ==
    [heap |-> h, arr |-> a, ret |-> Ret("clone", "Ok")]

\* faulty variant: the strings to copy are found by scanning the pointer
\* table up to its first null slot
cloneFromTable(h, a, addrs) ==
    LET n == ScanFrom(h, a.pbuf, 0)
        v == [i \in 1..n |-> Slot(h, a.pbuf, i - 1)]
        r == from_cstrings(CloneStrings(h, v, addrs), SubSeq(addrs, 1, n), addrs[n + 1])
    IN  [r EXCEPT !.ret = Expect([r.ret EXCEPT !.op = "clone"])]

\* faulty variant: the first string is left out of the copy
cloneOfTail(h, a, addrs) ==
    LET n == Len(as_slice(a)) - 1
        r == from_cstrings(CloneStrings(h, Tail(as_slice(a)), addrs),
                           SubSeq(addrs, 1, n), addrs[n + 1])
    IN  [r EXCEPT !.ret = Expect([r.ret EXCEPT !.op = "clone"])]

\* Self::from_cstrings(self.as_slice().to_vec()).expect(..)
clone(h, a, addrs) ==
    LET n == Len(as_slice(a))
        r == from_cstrings(CloneStrings(h, as_slice(a), addrs),
                           SubSeq(addrs, 1, n), addrs[n + 1])
    IN  [r EXCEPT !.ret = Expect([r.ret EXCEPT !.op = "clone"])]

\* faulty variant: the derived comparison, which also compares the tables
eqDerived(h, a, b) ==
    /\ Contents(h, as_slice(a)) = Contents(h, as_slice(b))
    /\ h[a.pbuf].data = h[b.pbuf].data

\* self.as_slice() == other.as_slice(): same length, equal bytes at every index
eq(h, a, b) ==
    /\ Len(as_slice(a)) = Len(as_slice(b))
    /\ \A i \in 1..Len(as_slice(a)) : h[as_slice(a)[i]].data = h[as_slice(b)[i]].data

\* what Hash for [CString] writes to the hasher after the slice length: for
\* every string its length and its bytes
RECURSIVE HashFeed(_, _)
HashFeed(h, v) ==
    IF v = <<>> THEN <<>>
    ELSE <<Len(h[Head(v)].data)>> \o h[Head(v)].data \o HashFeed(h, Tail(v))

\* faulty variant: the derived hash, which also feeds the pointer values
hashDerived(h, a) ==
    <<Len(as_slice(a))>> \o HashFeed(h, as_slice(a)) \o h[a.pbuf].data

\* self.as_slice().hash(state): everything written to the hasher
hash(h, a) == <<Len(as_slice(a))>> \o HashFeed(h, as_slice(a))

\* HashMap::len() after inserting two keys: the second replaces the first
\* when the hashes agree and the keys are equal
HashMapLen(h1, h2, equal) == IF h1 = h2 /\ equal THEN 1 ELSE 2

\* non-continuation bytes: the characters of a text
CharCount(s) == Cardinality({k \in 1..Len(s) : s[k] < 128 \/ s[k] >= 192})

RECURSIVE TotalChars(_)
TotalChars(S) == IF S = <<>> THEN 0 ELSE CharCount(Head(S)) + TotalChars(Tail(S))

\* CStringArray::new for a second array, while the first is alive
NewOther ==
    /\ arr.state = "alive"
    /\ input.path = "texts"
    /\ other.state = "none"
    /\ ret.op = "new"
    /\ \E S \in ValidInputs :
          /\ TotalChars(S) + TotalChars(input.texts) <= MaxChars
          /\ \E addrs \in AllocOrders(heap, Len(S) + 1) :
                LET r == new(heap, S, addrs) IN
                /\ heap' = r.heap
                /\ other' = r.arr
                /\ ret' = [r.ret EXCEPT !.op = "new_other"]
          /\ input' = [input EXCEPT !.texts2 = S]
    /\ UNCHANGED <<arr, cargs, handed, threads>>

Clone ==
    /\ arr.state = "alive"
    /\ other.state = "none"
    /\ \E addrs \in AllocOrders(heap, len(arr) + 1) :
          LET r == clone(heap, arr, addrs) IN
          /\ heap' = r.heap
          /\ other' = r.arr
          /\ ret' = r.ret
    /\ UNCHANGED <<arr, cargs, input, handed, threads>>

Eq ==
    /\ arr.state = "alive"
    /\ other.state = "alive"
    /\ ret' = [Ret("eq", "bool") EXCEPT !.val = <<eq(heap, arr, other)>>]
    /\ UNCHANGED handed
    /\ ReadOnly

\* both arrays hashed and inserted as keys of one HashMap
HashPair ==
    /\ arr.state = "alive"
    /\ other.state = "alive"
    /\ LET h1 == hash(heap, arr)
           h2 == hash(heap, other)
       IN  ret' = [Ret("hash", "u64") EXCEPT
                     !.val = <<h1, h2>>,
                     !.idx = HashMapLen(h1, h2, eq(heap, arr, other))]
    /\ UNCHANGED handed
    /\ ReadOnly

\* drop(other): Drop::drop and the drop glue of the second array
DropOther ==
    /\ other.state = "alive"
    /\ heap' = [FreeAll(heap, other.strings) EXCEPT ![other.pbuf] = FreeBlock]
    /\ other' = Released
    /\ ret' = Ret("drop_other", "none")
    /\ UNCHANGED <<arr, cargs, input, handed, threads>>

(* ---- consuming the array ---- *)
\* into_strings(self) -> Vec<CString>: the owned strings move out to the
\* caller; the rest of the array (the pointer table) is released
into_strings(h, a) ==
    [heap |-> [h EXCEPT ![a.pbuf] = FreeBlock], arr |-> Released, val |-> a.strings]

\* IntoIterator for CStringArray: self.into_strings().into_iter(), whose
\* items come out front to back
into_iter(h, a) ==
    LET r == into_strings(h, a) IN
    [r EXCEPT !.val = [i \in 1..Len(r.val) |-> r.val[i]]]

IntoStrings ==
    /\ arr.state = "alive"
    /\ ~cargs.held
    /\ LET r == into_strings(heap, arr) IN
          /\ heap' = r.heap
          /\ arr' = r.arr
          /\ cargs' = [held |-> TRUE, v |-> r.val]
          /\ ret' = [Ret("into_strings", "Vec") EXCEPT !.val = r.val]
    /\ UNCHANGED <<input, other, handed, threads>>

\* for s in arr / arr.into_iter().collect::<Vec<CString>>()
IntoIter ==
    /\ arr.state = "alive"
    /\ ~cargs.held
    /\ LET r == into_iter(heap, arr) IN
          /\ heap' = r.heap
          /\ arr' = r.arr
          /\ cargs' = [held |-> TRUE, v |-> r.val]
          /\ ret' = [Ret("into_iter", "Vec") EXCEPT !.val = r.val]
    /\ UNCHANGED <<input, other, handed, threads>>

(* ---- release ---- *)
\* faulty variant: the table keeps its length
DropKeepingLength ==
    /\ arr.state = "alive"
    /\ arr' = [arr EXCEPT !.state = "cleared"]
    /\ ret' = Ret("drop", "none")
    /\ UNCHANGED <<heap, cargs, input, other, handed, threads>>

\* Drop::drop: self.pointers.clear() sets the Vec's length to 0 and leaves
\* the slots as they are
Drop ==
    /\ arr.state = "alive"
    /\ arr' = [arr EXCEPT !.state = "cleared", !.plen = 0]
    /\ ret' = Ret("drop", "none")
    /\ UNCHANGED <<heap, cargs, input, other, handed, threads>>

\* drop glue, first field: the Vec<CString> frees every string
DropStrings ==
    /\ arr.state = "cleared"
    /\ heap' = FreeAll(heap, arr.strings)
    /\ arr' = [arr EXCEPT !.state = "strings_freed", !.strings = <<>>]
    /\ UNCHANGED <<cargs, input, ret, other, handed, threads>>

\* drop glue, second field: the pointer table's buffer is freed
DropPointers ==
    /\ arr.state = "strings_freed"
    /\ heap' = [heap EXCEPT ![arr.pbuf] = FreeBlock]
    /\ arr' = Released
    /\ UNCHANGED <<cargs, input, ret, other, handed, threads>>

Next ==
    \/ New
    \/ FromCStrings
    \/ TryFromVecString
    \/ TryFromVecStr
    \/ TryFromArrayString
    \/ TryFromArrayStr
    \/ TryFromVecCString
    \/ FromIterString
    \/ FromIterCString
    \/ BuildCStrings
    \/ DropCStrings
    \/ Get
    \/ AsPtr
    \/ AsMutPtr
    \/ CallLen
    \/ CallIsEmpty
    \/ Iter
    \/ IntoIterRef
    \/ Index
    \/ AsRef
    \/ IntoStrings
    \/ IntoIter
    \/ Drop
    \/ DropStrings
    \/ DropPointers

Spec == Init /\ [][Next]_vars

(* ---- two arrays at once: a heap with room for both ---- *)
PairAddr == 1..(2 * MaxLen + 2)

InitPair ==
    /\ heap = [a \in PairAddr |-> FreeBlock]
    /\ arr = NoArray
    /\ cargs = NoArgs
    /\ input = NoInput
    /\ ret = Ret("init", "none")
    /\ other = NoArray
    /\ handed = {}
    /\ threads = NoThreads

\* two independently built arrays compared and hashed
NextEq ==
    \/ New
    \/ NewOther
    \/ Eq
    \/ HashPair

SpecEq == InitPair /\ [][NextEq]_vars

\* an array, its clone, and the release of either
NextClone ==
    \/ New
    \/ Clone
    \/ Eq
    \/ Drop
    \/ DropStrings
    \/ DropPointers
    \/ DropOther

SpecClone == InitPair /\ [][NextClone]_vars

\* one array under every operation that does not consume it
NextOps ==
    \/ New
    \/ AsPtr
    \/ AsMutPtr
    \/ CallLen
    \/ CallIsEmpty
    \/ Get
    \/ Iter
    \/ IntoIterRef
    \/ Index
    \/ AsRef
    \/ Clone
    \/ Eq
    \/ HashPair

SpecOps == InitPair /\ [][NextOps]_vars

(* ---- several threads on one array (unsafe impl Send, unsafe impl Sync) ---- *)
ConcChars == 1

\* the heap of the threaded runs: room for one array
ConcAddr == 1..(MaxLen + 1)

InitConc ==
    /\ heap = [a \in ConcAddr |-> FreeBlock]
    /\ arr = NoArray
    /\ cargs = NoArgs
    /\ input = NoInput
    /\ ret = Ret("init", "none")
    /\ other = NoArray
    /\ handed = {}
    /\ threads = NoThreads

\* the main thread builds the array the threads will share
NewShared ==
    /\ Fresh
    /\ \E S \in ValidInputs : TotalChars(S) <= ConcChars /\ CallNew("new", S, FALSE)

\* the calls through &CStringArray, with their argument (-1 when none)
SafeCalls ==
    {<<"as_ptr", -1>>, <<"len", -1>>, <<"is_empty", -1>>, <<"iter", -1>>}
        \cup {<<"get", i>> : i \in 0..MaxLen}

\* what such a call returns
Perform(a, op, i) ==
    CASE op = "as_ptr" -> <<as_ptr(a)>>
      [] op = "len" -> <<len(a)>>
      [] op = "is_empty" -> <<is_empty(a)>>
      [] op = "get" -> get(a, i)
      [] op = "iter" -> iter(a)

\* faulty variant: a read may observe a slot that is not yet written
ReadSlotTorn(h, base, i, wrote) == {Slot(h, base, i), NULL}

\* what a read of slot i through the raw pointer may return: the slot's
\* value, or, racing with a write through the as_mut_ptr pointer (which
\* goes to slot 0), the value that write replaced
ReadSlot(h, base, i, wrote) ==
    {Slot(h, base, i)} \cup (IF i = 0 THEN Range(wrote) ELSE {})

Finished(op, i, v) == [Idle EXCEPT !.pc = "done", !.op = op, !.idx = i, !.val = v]

ThreadsOnly == UNCHANGED <<heap, arr, cargs, input, ret, other, handed>>

\* a thread calls as_ptr, len, is_empty, get or iter on the shared array
ThreadCall ==
    /\ arr.state = "alive"
    /\ \E t \in Threads : \E c \in SafeCalls :
          /\ threads.th[t].pc = "idle"
          /\ threads' = [threads EXCEPT
                           !.th[t] = Finished(c[1], c[2], Perform(arr, c[1], c[2]))]
    /\ ThreadsOnly

\* foreign code on a thread reads slot i, the sentinel included
ThreadReadSlot ==
    /\ arr.state = "alive"
    /\ \E t \in Threads : \E i \in 0..len(arr) :
          /\ threads.th[t].pc = "idle"
          /\ \E v \in ReadSlot(heap, as_ptr(arr), i, threads.wrote) :
                threads' = [threads EXCEPT !.th[t] = Finished("slot", i, <<v>>)]
    /\ ThreadsOnly

\* foreign code on a thread reads string i: first the slot ...
ThreadBeginString ==
    /\ arr.state = "alive"
    /\ \E t \in Threads : \E i \in 0..(len(arr) - 1) :
          /\ threads.th[t].pc = "idle"
          /\ \E v \in ReadSlot(heap, as_ptr(arr), i, threads.wrote) :
                threads' = [threads EXCEPT
                             !.th[t] = [Idle EXCEPT !.pc = "mid", !.op = "cstr",
                                                    !.idx = i, !.p = v]]
    /\ ThreadsOnly

\* ... then the bytes at the address found there (a null address faults)
ThreadEndString ==
    /\ \E t \in Threads :
          LET me == threads.th[t] IN
          /\ me.pc = "mid"
          /\ threads' = [threads EXCEPT
                           !.th[t] = Finished("cstr", me.idx,
                                              IF me.p = NULL THEN <<"fault">>
                                              ELSE <<CStrBytes(heap, me.p)>>)]
    /\ ThreadsOnly

\* the call returns and the thread is free for another
ThreadReturn ==
    /\ \E t \in Threads :
          /\ threads.th[t].pc = "done"
          /\ threads' = [threads EXCEPT !.th[t] = Idle]
    /\ ThreadsOnly

\* Send: the array moves to another thread while nobody borrows it
SendArray ==
    /\ arr.state = "alive"
    /\ \A t \in Threads : threads.th[t].pc = "idle"
    /\ \E t \in Threads \ {threads.owner} : threads' = [threads EXCEPT !.owner = t]
    /\ ThreadsOnly

\* a thread writes a null into slot 0 through the pointer from as_mut_ptr
WriteThroughMutPtr ==
    /\ arr.state = "alive"
    /\ threads.wrote = <<>>
    /\ \E t \in Threads : threads.th[t].pc = "idle"
    /\ heap' = [heap EXCEPT ![as_mut_ptr(arr)].data[1] = NULL]
    /\ threads' = [threads EXCEPT !.wrote = <<Slot(heap, as_mut_ptr(arr), 0)>>]
    /\ UNCHANGED <<arr, cargs, input, ret, other, handed>>

NextConc ==
    \/ NewShared
    \/ ThreadCall
    \/ ThreadReadSlot
    \/ ThreadBeginString
    \/ ThreadEndString
    \/ ThreadReturn
    \/ SendArray
    \/ WriteThroughMutPtr

SpecConc == InitConc /\ [][NextConc]_vars

(* ---- foreign code overwriting a slot of the table ---- *)
\* one array whose slot 0 foreign code may overwrite, under the operations
\* that work on the owned strings
NextForeign ==
    \/ New
    \/ WriteThroughMutPtr
    \/ CallLen
    \/ CallIsEmpty
    \/ Get
    \/ Iter
    \/ Index
    \/ AsRef
    \/ Clone
    \/ Eq
    \/ HashPair
    \/ IntoStrings

SpecForeign == InitPair /\ [][NextForeign]_vars

(* ---- the same input through a second entry point ---- *)
\* a second call on texts S, through the entry point op, into another array
SecondFromTexts(op, S, unwraps) ==
    /\ ret.op = "new"
    /\ input.path = "texts"
    /\ other.state = "none"
    /\ ~cargs.held
    /\ \E addrs \in AllocOrders(heap, Len(S) + 1) :
          LET r == new(heap, S, addrs)
              res == [r.ret EXCEPT !.op = op]
          IN  /\ heap' = r.heap
              /\ other' = r.arr
              /\ ret' = IF unwraps THEN Expect(res) ELSE res
    /\ UNCHANGED <<arr, cargs, input, handed, threads>>

AgainTryFromVecString == SecondFromTexts("try_from_vec_string", input.texts, FALSE)

AgainTryFromVecStr == SecondFromTexts("try_from_vec_str", OwnedFrom(input.texts), FALSE)

AgainTryFromArrayString == SecondFromTexts("try_from_array_string", ToVec(input.texts), FALSE)

AgainTryFromArrayStr == SecondFromTexts("try_from_array_str", OwnedFrom(input.texts), FALSE)

AgainFromIterString == SecondFromTexts("from_iter_string", ToVec(input.texts), TRUE)

\* Vec<CString> holding the given byte strings, each in a new buffer
RECURSIVE AllocBytes(_, _, _, _)
AllocBytes(h, cs, addrs, acc) ==
    IF cs = <<>> THEN [heap |-> h, strings |-> acc]
    ELSE AllocBytes([h EXCEPT ![Head(addrs)] = BytesBlock(Head(cs))],
                    Tail(cs), Tail(addrs), Append(acc, Head(addrs)))

\* the caller converts the texts new accepted, element by element:
\* strings.iter().map(|s| CString::new(s).unwrap()).collect()
ConvertTexts ==
    /\ ret.op = "new"
    /\ ret.kind = "Ok"
    /\ other.state = "none"
    /\ ~cargs.held
    /\ \E addrs \in AllocOrders(heap, Len(input.texts)) :
          LET c == Collect(heap, input.texts, addrs, <<>>) IN
          /\ heap' = c.heap
          /\ cargs' = [held |-> TRUE, v |-> c.strings]
    /\ UNCHANGED <<arr, input, ret, other, handed, threads>>

\* the caller builds once more the byte strings it gave from_cstrings
RebuildCStrings ==
    /\ ret.op = "from_cstrings"
    /\ other.state = "none"
    /\ ~cargs.held
    /\ \E addrs \in AllocOrders(heap, Len(input.cstrs)) :
          LET c == AllocBytes(heap, input.cstrs, addrs, <<>>) IN
          /\ heap' = c.heap
          /\ cargs' = [held |-> TRUE, v |-> c.strings]
    /\ UNCHANGED <<arr, input, ret, other, handed, threads>>

\* a second call on the caller's Vec<CString>, through the entry point op,
\* into another array
SecondFromCStrings(op, unwraps) ==
    /\ ret.op \in {"new", "from_cstrings"}
    /\ input.path # "none"
    /\ other.state = "none"
    /\ cargs.held
    /\ \E a \in AllocOrders(heap, 1) :
          LET r == from_cstrings(heap, cargs.v, a[1])
              res == [r.ret EXCEPT !.op = op]
          IN  /\ heap' = r.heap
              /\ other' = r.arr
              /\ ret' = IF unwraps THEN Expect(res) ELSE res
    /\ cargs' = NoArgs
    /\ UNCHANGED <<arr, input, handed, threads>>

AgainFromCStrings == ret.op = "new" /\ SecondFromCStrings("from_cstrings", FALSE)

AgainTryFromVecCString == SecondFromCStrings("try_from_vec_cstring", FALSE)

AgainFromIterCString == ret.op = "new" /\ SecondFromCStrings("from_iter_cstring", TRUE)

NextPaths ==
    \/ New
    \/ BuildCStrings
    \/ FromCStrings
    \/ AgainTryFromVecString
    \/ AgainTryFromVecStr
    \/ AgainTryFromArrayString
    \/ AgainTryFromArrayStr
    \/ AgainFromIterString
    \/ ConvertTexts
    \/ RebuildCStrings
    \/ AgainFromCStrings
    \/ AgainTryFromVecCString
    \/ AgainFromIterCString

SpecPaths == InitPair /\ [][NextPaths]_vars

(* ---- CStringArrayError: Display, Error::source (error.rs) ---- *)
\* faulty variant: the position is printed counting from one
fmtOneBased(e) ==
    IF e.err = "NulError"
    THEN <<"String", "contains", "interior", "null", "byte", "at", "position",
           ToString(e.pos + 1)>>
    ELSE <<"Cannot", "create", "array", "from", "empty", "input">>

\* Display::fmt, as the words of the text written
fmt(e) ==
    IF e.err = "NulError"
    THEN <<"String", "contains", "interior", "null", "byte", "at", "position",
           ToString(e.pos)>>
    ELSE <<"Cannot", "create", "array", "from", "empty", "input">>

\* Error::source: Some(the NulError) or None
source(e) ==
    IF e.err = "NulError" THEN <<[type |-> "NulError", nul_position |-> e.pos]>>
    ELSE <<>>

\* format!("{}", e) on the error a constructor returned
DisplayError ==
    /\ ret.kind = "Err"
    /\ ret.op \notin {"display", "source"}
    /\ ret' = [ret EXCEPT !.op = "display", !.val = fmt(ret)]
    /\ UNCHANGED <<heap, arr, cargs, input, other, handed, threads>>

\* e.source() on the error a constructor returned
ErrorSource ==
    /\ ret.kind = "Err"
    /\ ret.op \notin {"display", "source"}
    /\ ret' = [ret EXCEPT !.op = "source", !.val = source(ret)]
    /\ UNCHANGED <<heap, arr, cargs, input, other, handed, threads>>

\* failing constructions and what the caller learns from the error
NextErr ==
    \/ New
    \/ BuildCStrings
    \/ FromCStrings
    \/ TryFromVecString
    \/ TryFromVecStr
    \/ TryFromArrayString
    \/ TryFromArrayStr
    \/ TryFromVecCString
    \/ DisplayError
    \/ ErrorSource

SpecErr == Init /\ [][NextErr]_vars

\* every way an array comes into being, and the emptiness queries
NextBirth ==
    \/ New
    \/ FromCStrings
    \/ TryFromVecString
    \/ TryFromVecStr
    \/ TryFromArrayString
    \/ TryFromArrayStr
    \/ TryFromVecCString
    \/ FromIterString
    \/ FromIterCString
    \/ BuildCStrings
    \/ Clone
    \/ CallLen
    \/ CallIsEmpty

SpecBirth == InitPair /\ [][NextBirth]_vars

(***************************************************************************)
(* Properties                                                              *)
(***************************************************************************)
Constructors ==
    {"new", "from_cstrings", "try_from_vec_string", "try_from_vec_str",
     "try_from_array_string", "try_from_array_str", "try_from_vec_cstring",
     "from_iter_string", "from_iter_cstring"}

HasNul(s) == \E k \in 1..Len(s) : s[k] = NUL

\* the byte offset of the first terminator byte of s
FirstNul(s) ==
    CHOOSE p \in 0..(Len(s) - 1) :
        s[p + 1] = NUL /\ \A q \in 0..(p - 1) : s[q + 1] # NUL

\* the bytes of the i-th input string, without terminator
InputBytes(i) ==
    IF input.path = "texts" THEN input.texts[i]
    ELSE SubSeq(input.cstrs[i], 1, Len(input.cstrs[i]) - 1)

InputLen == IF input.path = "texts" THEN Len(input.texts) ELSE Len(input.cstrs)

\* slot i of the table behind as_ptr() is the address of strings[i], and
\* the bytes read there are those of the i-th input string
Synchronised ==
    /\ heap[as_ptr(arr)].kind = "table"
    /\ Len(heap[as_ptr(arr)].data) >= len(arr)
    /\ \A i \in 1..len(arr) :
          LET p == Slot(heap, as_ptr(arr), i - 1) IN
          /\ p = arr.strings[i]
          /\ heap[p].kind = "bytes"
          /\ CStrBytes(heap, p) = InputBytes(i)

\* the table has len()+1 slots, the last is null, none before it is, and a
\* scan to the first null slot visits len() slots
Shaped ==
    /\ heap[as_ptr(arr)].kind = "table"
    /\ arr.plen = len(arr) + 1
    /\ Len(heap[as_ptr(arr)].data) = len(arr) + 1
    /\ Slot(heap, as_ptr(arr), len(arr)) = NULL
    /\ \A i \in 0..(len(arr) - 1) : Slot(heap, as_ptr(arr), i) # NULL
    /\ ScanFrom(heap, as_ptr(arr), 0) = len(arr)

\* C1: while an array is alive, every slot i < len() of the table at
\* as_ptr() holds the address of strings[i], and reading there gives the
\* bytes of the i-th input string up to its terminator.
C1_PointerSync == arr.state = "alive" => Synchronised

C1_Witness ==
    /\ arr.state = "alive"
    /\ ret.op = "get"
    /\ len(arr) = 2
    /\ InputBytes(1) # InputBytes(2)
    /\ Slot(heap, as_ptr(arr), 1) = arr.strings[2]

\* C2: while an array is alive, its pointer table has len()+1 slots, the
\* slot at len() is null, no earlier slot is null, and a scan from as_ptr()
\* to the first null slot visits exactly len() slots.
C2_TableShape == arr.state = "alive" => Shaped

C2_Witness ==
    /\ arr.state = "alive"
    /\ len(arr) = 2
    /\ ScanFrom(heap, as_ptr(arr), 0) = 2
    /\ Slot(heap, as_ptr(arr), 2) = NULL

\* C3: new on a non-empty input without terminator bytes succeeds and
\* len() is the number of input elements.
C3_LengthInvariant ==
    (/\ ret.op = "new"
     /\ input.texts # <<>>
     /\ \A i \in 1..Len(input.texts) : ~HasNul(input.texts[i]))
    => (/\ ret.kind = "Ok"
        /\ arr.state = "alive"
        /\ len(arr) = Len(input.texts))

C3_Witness ==
    /\ ret.op = "new"
    /\ ret.kind = "Ok"
    /\ Len(input.texts) = 2
    /\ len(arr) = 2

\* C4: new and from_cstrings on a zero-element input return the EmptyArray
\* error and produce no array.
C4_EmptyRejected ==
    (ret.op \in {"new", "from_cstrings"} /\ InputLen = 0)
    => (ret.kind = "Err" /\ ret.err = "EmptyArray" /\ arr = NoArray)

C4_Witness ==
    /\ ret.op = "from_cstrings"
    /\ input.path = "cstrings"
    /\ InputLen = 0
    /\ ret.err = "EmptyArray"
    /\ arr = NoArray

\* C5 as stated: new on an input containing a text whose first terminator
\* byte is at byte offset p fails with the NulError carrying p.
C5_Original ==
    ret.op = "new" =>
        \A i \in 1..Len(input.texts) :
            HasNul(input.texts[i]) =>
                (/\ ret.kind = "Err"
                 /\ ret.err = "NulError"
                 /\ ret.pos = FirstNul(input.texts[i]))

\* C5 amended: new on an input containing a text with a terminator byte
\* fails with the NulError, and the position carried is the byte offset p
\* of the first terminator of that text when no earlier element of the
\* input contains a terminator.
C5_NulDetected ==
    ret.op = "new" =>
        \A i \in 1..Len(input.texts) :
            HasNul(input.texts[i]) =>
                (/\ ret.kind = "Err"
                 /\ ret.err = "NulError"
                 /\ (\A j \in 1..(i - 1) : ~HasNul(input.texts[j]))
                        => ret.pos = FirstNul(input.texts[i]))

\* a two-byte character before the terminator, after a clean element
C5_Witness ==
    /\ ret.op = "new"
    /\ ret.err = "NulError"
    /\ Len(input.texts) = 2
    /\ ~HasNul(input.texts[1])
    /\ Len(input.texts[2]) = 3
    /\ ret.pos = 2

\* every block of the heap that is in use
Owned == Range(arr.strings) \cup (IF arr.state = "none" THEN {} ELSE {arr.pbuf})

\* C6: a call of new or from_cstrings leaves either a fully formed array
\* (alive, non-empty, synchronised, null-terminated, owning exactly its
\* blocks) or an error with no array and no converted string retained.
C6_AllOrNothing ==
    ret.op \in {"new", "from_cstrings"} =>
        \/ /\ ret.kind = "Ok"
           /\ arr.state = "alive"
           /\ len(arr) > 0
           /\ Synchronised
           /\ Shaped
           /\ LiveAddrs(heap) = Owned
        \/ /\ ret.kind = "Err"
           /\ arr = NoArray
           /\ LiveAddrs(heap) = {}

\* new failed on the second element, after the first was converted
C6_Witness ==
    /\ ret.op = "new"
    /\ ret.kind = "Err"
    /\ ret.err = "NulError"
    /\ Len(input.texts) = 2
    /\ ~HasNul(input.texts[1])
    /\ LiveAddrs(heap) = {}

\* C7 as stated: on every construction entry point an empty input and an
\* embedded terminator come back to the caller as the EmptyArray and
\* NulError values, and no other operation fails.
C7_ErrorsReturned ==
    /\ ret.op \in Constructors =>
          /\ InputLen = 0 => (ret.kind = "Err" /\ ret.err = "EmptyArray")
          /\ (\E i \in 1..Len(input.texts) : HasNul(input.texts[i]))
                => (ret.kind = "Err" /\ ret.err = "NulError")
    /\ ret.op \notin Constructors => ret.kind \notin {"Err", "Panic"}

\* C8: get(i) returns the i-th owned string when i < len() and None when
\* i >= len(), the boundary i = len() included.
C8_GetBounds ==
    ret.op = "get" =>
        IF ret.idx < len(arr)
        THEN /\ ret.kind = "Some"
             /\ ret.val = <<arr.strings[ret.idx + 1]>>
             /\ CStrBytes(heap, ret.val[1]) = InputBytes(ret.idx + 1)
        ELSE ret.kind = "None" /\ ret.val = <<>>

C8_Witness ==
    /\ ret.op = "get"
    /\ ret.idx = len(arr)
    /\ len(arr) = 2
    /\ ret.kind = "None"

\* C9: from_cstrings on a non-empty Vec<CString> succeeds and the owned
\* strings are the input strings, byte for byte and in order.
C9_ZeroCopyIdentity ==
    (ret.op = "from_cstrings" /\ input.cstrs # <<>>)
    => (/\ ret.kind = "Ok"
        /\ arr.state = "alive"
        /\ Contents(heap, arr.strings) = input.cstrs)

C9_Witness ==
    /\ ret.op = "from_cstrings"
    /\ ret.kind = "Ok"
    /\ Len(input.cstrs) = 2
    /\ input.cstrs[1] # input.cstrs[2]
    /\ Contents(heap, arr.strings) = input.cstrs

\* C10: into_strings() and the owning IntoIterator on an array built by
\* from_cstrings(C) yield exactly C, unchanged and in order.
C10_RoundTrip ==
    (ret.op \in {"into_strings", "into_iter"} /\ input.path = "cstrings")
    => (/\ ret.val = input.addrs
        /\ Contents(heap, ret.val) = input.cstrs)

C10_Witness ==
    /\ ret.op = "into_iter"
    /\ input.path = "cstrings"
    /\ Len(ret.val) = 2
    /\ input.cstrs[1] # input.cstrs[2]
    /\ Contents(heap, ret.val) = input.cstrs

\* the table behind a's as_ptr() is live and every slot i < len() holds the
\* address of a's own i-th string, which is live
PointersValid(h, a) ==
    /\ h[as_ptr(a)].kind = "table"
    /\ Len(h[as_ptr(a)].data) >= len(a)
    /\ \A i \in 1..len(a) :
          /\ Slot(h, as_ptr(a), i - 1) = a.strings[i]
          /\ h[a.strings[i]].kind = "bytes"

\* C11: == compares the owned byte strings in order and never the pointer
\* values: two arrays built by new compare equal exactly when their inputs
\* are the same sequence (same length, same element at every index), and
\* their tables hold different addresses whatever the answer.
C11_EqualityOverStrings ==
    ret.op = "eq" =>
        /\ ret.val = <<input.texts = input.texts2>>
        /\ heap[as_ptr(arr)].data # heap[as_ptr(other)].data

C11_Witness ==
    /\ ret.op = "eq"
    /\ ret.val = <<TRUE>>
    /\ len(arr) = 2
    /\ heap[as_ptr(arr)].data # heap[as_ptr(other)].data

\* C12: a clone compares equal to the original, has the same len(), a
\* different as_ptr() address, strings of its own, and a table synchronised
\* with those strings; after either of the two is released (and during its
\* release) the other's pointers are still valid.
C12_CloneIndependent ==
    /\ ret.op = "clone" =>
          /\ ret.kind = "Ok"
          /\ eq(heap, other, arr)
          /\ len(other) = len(arr)
          /\ as_ptr(other) # as_ptr(arr)
          /\ Range(other.strings) \cap Range(arr.strings) = {}
          /\ PointersValid(heap, other)
    /\ other.state = "alive" => PointersValid(heap, other)
    /\ arr.state = "alive" => PointersValid(heap, arr)

C12_Witness ==
    /\ arr.state = "released"
    /\ other.state = "alive"
    /\ len(other) = 2
    /\ PointersValid(heap, other)

\* C13: arrays that compare equal feed the hasher the same data, and
\* inserting both as keys of one HashMap leaves a single entry.
C13_HashConsistent ==
    ret.op = "hash" /\ eq(heap, arr, other) =>
        /\ ret.val[1] = ret.val[2]
        /\ ret.idx = 1

C13_Witness ==
    /\ ret.op = "hash"
    /\ eq(heap, arr, other)
    /\ len(arr) = 2
    /\ ret.idx = 1

\* C14: no alive array has zero strings, whichever constructor, conversion
\* or clone produced it, so is_empty() is false on every alive array.
C14_NeverEmpty ==
    /\ arr.state = "alive" => len(arr) > 0 /\ ~is_empty(arr)
    /\ other.state = "alive" => len(other) > 0 /\ ~is_empty(other)
    /\ ret.op = "is_empty" => ret.val = <<FALSE>>

C14_Witness ==
    /\ ret.op = "is_empty"
    /\ ret.val = <<FALSE>>
    /\ input.path = "cstrings"
    /\ other.state = "alive"

\* C15: every address as_ptr() and as_mut_ptr() return on one alive array
\* is the same address, that of its pointer table, and neither call changes
\* the heap or the array.
C15_PointerStable ==
    /\ [](arr.state = "alive" => handed \subseteq {arr.pbuf})
    /\ [][ret'.op \in {"as_ptr", "as_mut_ptr"} =>
            /\ ret'.val = <<arr.pbuf>>
            /\ heap' = heap
            /\ arr' = arr]_vars

C15_Witness ==
    /\ arr.state = "alive"
    /\ len(arr) = 2
    /\ ret.op = "as_mut_ptr"
    /\ handed = {as_ptr(arr)}
    /\ heap[as_ptr(arr)].kind = "table"

\* C19: a traversal by iter(), or by a loop over &array, yields len() items,
\* the k-th being what get(k) returns, and every item is one of the owned
\* strings, never the pointer table.
C19_Iteration ==
    ret.op \in {"iter", "into_iter_ref"} =>
        /\ Len(ret.val) = len(arr)
        /\ \A k \in 0..(len(arr) - 1) : <<ret.val[k + 1]>> = get(arr, k)
        /\ \A k \in 1..Len(ret.val) :
              /\ heap[ret.val[k]].kind = "bytes"
              /\ ret.val[k] # as_ptr(arr)

C19_Witness ==
    /\ ret.op = "into_iter_ref"
    /\ Len(ret.val) = 2
    /\ <<ret.val[2]>> = get(arr, 1)

\* C20: array[i] is the element get(i) returns when i < len(), and panics
\* when i >= len().
C20_Index ==
    ret.op = "index" =>
        IF ret.idx < len(arr)
        THEN ret.kind = "Ref" /\ ret.val = get(arr, ret.idx) /\ ret.val # <<>>
        ELSE ret.kind = "Panic"

C20_Witness ==
    /\ ret.op = "index"
    /\ ret.idx = len(arr)
    /\ len(arr) = 2
    /\ ret.kind = "Panic"

\* C16: no operation that does not consume the array (as_ptr, as_mut_ptr,
\* len, is_empty, get, iter, clone, ==, hash, indexing, as_ref) changes it:
\* across every such step the strings, their bytes, len() and every slot of
\* the table are what they were.
C16_Immutable ==
    [][arr.state = "alive" =>
          /\ arr' = arr
          /\ len(arr') = len(arr)
          /\ Contents(heap', arr'.strings) = Contents(heap, arr.strings)
          /\ heap'[as_ptr(arr')] = heap[as_ptr(arr)]]_vars

C16_Witness ==
    /\ ret.op = "hash"
    /\ handed = {as_ptr(arr)}
    /\ len(arr) = 2
    /\ Synchronised
    /\ Shaped

\* the states an array goes through: built by a constructor, alive, then
\* released, either by its drop (Drop::drop, then the drop glue of the two
\* fields) or by being consumed
Lifecycle ==
    {<<"none", "alive">>, <<"alive", "cleared">>, <<"cleared", "strings_freed">>,
     <<"strings_freed", "released">>, <<"alive", "released">>}

\* the non-null slot values of the table at base
SlotValues(h, base) == Range(h[base].data) \ {NULL}

\* what a step may do to an array's lifecycle, and what the two freeing
\* steps of its drop do to the heap
ReleaseSteps ==
    /\ arr'.state # arr.state =>
          \/ <<arr.state, arr'.state>> \in Lifecycle
          \/ /\ arr.state = "released"
             /\ arr'.state = "alive"
             /\ ret'.op \in Constructors
             /\ handed' = {}
    /\ (arr.state = "none" /\ arr'.state = "alive") => ret'.op \in Constructors
    /\ (arr.state = "cleared" /\ arr'.state = "strings_freed") =>
          /\ Cardinality(Range(arr.strings)) = Len(arr.strings)
          /\ SlotValues(heap, arr.pbuf) = Range(arr.strings)
          /\ \A p \in SlotValues(heap, arr.pbuf) :
                heap[p].kind = "bytes" /\ heap'[p].kind = "free"
          /\ heap'[arr.pbuf] = heap[arr.pbuf]
    /\ (arr.state = "strings_freed" /\ arr'.state = "released") =>
          /\ heap[arr.pbuf].kind = "table"
          /\ heap'[arr.pbuf].kind = "free"

\* C17: an array is built, alive, then released, and a released array never
\* comes back (the caller's slot can only receive a new array from a
\* constructor). While it is alive every address as_ptr()/as_mut_ptr()
\* handed out is a live table and every slot value a live string. Its drop
\* frees every string once and the table once, so that afterwards every
\* handed-out address and every slot value is freed storage and nothing the
\* array owned is left allocated.
C17_Release ==
    /\ [](arr.state = "alive" =>
            /\ \A a \in handed : heap[a].kind = "table"
            /\ \A p \in SlotValues(heap, as_ptr(arr)) : heap[p].kind = "bytes")
    /\ [](arr.state = "released" /\ ret.op = "drop" =>
            /\ \A a \in handed : heap[a].kind = "free"
            /\ LiveAddrs(heap) = Range(cargs.v))
    /\ [][ReleaseSteps]_vars

C17_Witness ==
    /\ arr.state = "released"
    /\ ret.op = "drop"
    /\ Len(input.texts) = 2
    /\ handed # {}
    /\ \A a \in handed : heap[a].kind = "free"
    /\ LiveAddrs(heap) = {}

\* what a call returns when one thread runs it alone, told from the input
\* the array was built from
Sequential(op, i) ==
    CASE op = "as_ptr" -> <<arr.pbuf>>
      [] op = "len" -> <<InputLen>>
      [] op = "is_empty" -> <<FALSE>>
      [] op = "get" -> IF i < InputLen THEN <<arr.strings[i + 1]>> ELSE <<>>
      [] op = "iter" -> arr.strings
      [] op = "slot" -> IF i < InputLen THEN <<arr.strings[i + 1]>> ELSE <<NULL>>
      [] op = "cstr" -> <<InputBytes(i + 1)>>

\* C18: under every interleaving of as_ptr, len, is_empty, get, iter and
\* reads of slots and strings through the raw pointer by several threads,
\* on whichever thread the array lives, every finished call has returned
\* what it returns when run alone and the array is as it was built, as long
\* as nothing was written through the pointer from as_mut_ptr.
C18_ConcurrentReads ==
    arr.state = "alive" /\ threads.wrote = <<>> =>
        /\ \A t \in Threads :
              threads.th[t].pc = "done" =>
                  threads.th[t].val = Sequential(threads.th[t].op, threads.th[t].idx)
        /\ Synchronised
        /\ Shaped

C18_Witness ==
    /\ threads.wrote = <<>>
    /\ threads.owner = "worker"
    /\ len(arr) = 2
    /\ threads.th["main"].pc = "mid"
    /\ threads.th["worker"].pc = "done"
    /\ threads.th["worker"].op = "cstr"
    /\ threads.th["worker"].val = <<InputBytes(threads.th["worker"].idx + 1)>>

\* the input to new is non-empty and no element contains a terminator byte
ValidTexts == input.texts # <<>> /\ \A i \in 1..Len(input.texts) : ~HasNul(input.texts[i])

\* C23: for every non-empty input without terminator bytes, empty strings
\* and multi-byte characters included, new succeeds and the i-th owned
\* string is the bytes of the i-th input followed by one terminator, its
\* only one, and its slot is not null.
C23_ContentPreserved ==
    ret.op = "new" /\ ValidTexts =>
        /\ ret.kind = "Ok"
        /\ len(arr) = Len(input.texts)
        /\ \A i \in 1..Len(input.texts) :
              LET s == heap[arr.strings[i]].data IN
              /\ s = Append(input.texts[i], NUL)
              /\ Memchr(s) = Len(s) - 1
              /\ Slot(heap, as_ptr(arr), i - 1) # NULL

\* an empty string, then a two-byte character
C23_Witness ==
    /\ ret.op = "new"
    /\ ret.kind = "Ok"
    /\ input.texts = <<<<>>, Utf8(233)>>
    /\ heap[arr.strings[1]].data = <<NUL>>
    /\ heap[arr.strings[2]].data = <<195, 169, NUL>>
    /\ Slot(heap, as_ptr(arr), 0) # NULL

\* the lowest index of an element with a terminator byte
FirstOffender(S) == CHOOSE i \in 1..Len(S) : HasNul(S[i]) /\ \A j \in 1..(i - 1) : ~HasNul(S[j])

\* the block numbers 1..n, as an allocation order
Fill(n) == [i \in 1..n |-> i]

\* C26: when elements of the input to new contain terminator bytes, the
\* error carries the offset of the first terminator of the lowest-index
\* such element, and the outcome is the one new gives for the input cut
\* off after that element: what follows it plays no part.
C26_FirstOffender ==
    ret.op = "new" /\ (\E i \in 1..Len(input.texts) : HasNul(input.texts[i])) =>
        LET k == FirstOffender(input.texts) IN
        /\ ret.kind = "Err"
        /\ ret.err = "NulError"
        /\ ret.pos = FirstNul(input.texts[k])
        /\ ret = new(heap, SubSeq(input.texts, 1, k), Fill(k + 1)).ret
        /\ ret = new(heap, input.texts, Fill(Len(input.texts) + 1)).ret

C26_Witness ==
    /\ ret.op = "new"
    /\ Len(input.texts) = 2
    /\ HasNul(input.texts[1])
    /\ HasNul(input.texts[2])
    /\ FirstNul(input.texts[1]) # FirstNul(input.texts[2])
    /\ ret.pos = FirstNul(input.texts[1])

\* C27: from_cstrings, called directly or through TryFrom<Vec<CString>> or
\* FromIterator<CString>, keeps every input string where it was: the owned
\* string i and slot i are the address the i-th input string had before the
\* call, and its bytes are still there.
C27_AddressPreserved ==
    (ret.op \in {"from_cstrings", "try_from_vec_cstring", "from_iter_cstring"}
        /\ ret.kind = "Ok") =>
        /\ arr.strings = input.addrs
        /\ \A i \in 1..Len(input.addrs) :
              /\ Slot(heap, as_ptr(arr), i - 1) = input.addrs[i]
              /\ heap[input.addrs[i]] = BytesBlock(input.cstrs[i])

C27_Witness ==
    /\ ret.op = "from_cstrings"
    /\ ret.kind = "Ok"
    /\ Len(input.addrs) = 2
    /\ Slot(heap, as_ptr(arr), 1) = input.addrs[2]
    /\ heap[input.addrs[2]] = BytesBlock(input.cstrs[2])

\* C29: the drop empties the pointer table (length 0, slots not zeroed)
\* before any string is freed: while strings are being freed and after, the
\* table's length is 0 and its buffer still holds the old addresses, and in
\* no state does a slot within the table's length hold the address of a
\* freed string.
C29_ReleaseOrder ==
    arr.state \in {"alive", "cleared", "strings_freed"} =>
        /\ heap[arr.pbuf].kind = "table"
        /\ arr.plen <= Len(heap[arr.pbuf].data)
        /\ \A i \in 1..arr.plen :
              heap[arr.pbuf].data[i] # NULL => heap[heap[arr.pbuf].data[i]].kind = "bytes"
        /\ arr.state \in {"cleared", "strings_freed"} =>
              /\ arr.plen = 0
              /\ SlotValues(heap, arr.pbuf) # {}
        /\ arr.state = "cleared" =>
              \A p \in SlotValues(heap, arr.pbuf) : heap[p].kind = "bytes"

C29_Witness ==
    /\ arr.state = "strings_freed"
    /\ arr.plen = 0
    /\ Len(heap[arr.pbuf].data) = 3
    /\ \A p \in SlotValues(heap, arr.pbuf) : heap[p].kind = "free"

\* the words ws occur in the text, one after the other
ContainsWords(text, ws) ==
    \E i \in 1..(Len(text) - Len(ws) + 1) : SubSeq(text, i, i + Len(ws) - 1) = ws

\* C24: a failed construction carries one of two errors, EmptyArray exactly
\* for the empty input and NulError otherwise. EmptyArray displays as
\* "Cannot create array from empty input" and has no source; NulError's
\* display contains "interior null byte" and "position p", p being the byte
\* offset the error carries, and its source is the NulError with that offset.
C24_ErrorReport ==
    ret.kind = "Err" =>
        /\ ret.err \in {"EmptyArray", "NulError"}
        /\ ret.err = "EmptyArray" <=> InputLen = 0
        /\ ret.err = "NulError" =>
              ret.pos = FirstNul(input.texts[FirstOffender(input.texts)])
        /\ (ret.op = "display" /\ ret.err = "EmptyArray") =>
              ret.val = <<"Cannot", "create", "array", "from", "empty", "input">>
        /\ (ret.op = "display" /\ ret.err = "NulError") =>
              /\ ContainsWords(ret.val, <<"interior", "null", "byte">>)
              /\ ContainsWords(ret.val, <<"position", ToString(ret.pos)>>)
        /\ (ret.op = "source" /\ ret.err = "EmptyArray") => ret.val = <<>>
        /\ (ret.op = "source" /\ ret.err = "NulError") =>
              ret.val = <<[type |-> "NulError", nul_position |-> ret.pos]>>

\* the input of test_error_display, cut to the bounds: a terminator at offset 2
C24_Witness ==
    /\ ret.op = "display"
    /\ ret.err = "NulError"
    /\ ret.pos = 2
    /\ ContainsWords(ret.val, <<"position", "2">>)

\* the second call ended as the first did: the same kind of result, the
\* same error and position, or two arrays of the same length with equal
\* elements at every index
SameOutcome ==
    /\ ret'.kind = ret.kind
    /\ ret'.err = ret.err
    /\ ret'.pos = ret.pos
    /\ ret.kind # "Ok" => other'.state = "none"
    /\ ret.kind = "Ok" =>
          /\ arr'.state = "alive"
          /\ other'.state = "alive"
          /\ len(other') = len(arr')
          /\ \A i \in 0..(len(arr') - 1) :
                /\ get(other', i) # <<>>
                /\ heap'[get(other', i)[1]].data = heap'[get(arr', i)[1]].data
          /\ eq(heap', arr', other')

TryFromTexts ==
    {"try_from_vec_string", "try_from_vec_str", "try_from_array_string",
     "try_from_array_str"}

EquivalentTryFrom ==
    \/ ret.op = "new" /\ ret'.op \in TryFromTexts
    \/ ret.op = "from_cstrings" /\ ret'.op = "try_from_vec_cstring"

\* C21: try_from on a Vec<String>, Vec<&str>, [String; N] or [&str; N]
\* holding the texts of S ends as new(S) did, with an equal array or the
\* same error and position (EmptyArray for the empty input), and try_from
\* on a Vec<CString> ends as from_cstrings did on the same byte strings.
C21_TryFromEquivalent == [][EquivalentTryFrom => SameOutcome]_vars

C21_Witness ==
    /\ ret.op = "try_from_array_str"
    /\ ret.kind = "Err"
    /\ ret.err = "NulError"
    /\ ret.pos = 2
    /\ Len(input.texts) = 1
    /\ other.state = "none"

CollectedAfterNew ==
    /\ ret.op = "new"
    /\ ret.kind = "Ok"
    /\ ret'.op \in {"from_iter_string", "from_iter_cstring"}

\* C22: for a non-empty input S of terminator-free texts, collecting S
\* through FromIterator<String>, or its byte strings through
\* FromIterator<CString>, gives an array equal to new(S), holding the bytes
\* of S's elements in S's order.
C22_FromIterConsistent ==
    [][CollectedAfterNew =>
          /\ ret'.kind = "Ok"
          /\ other'.state = "alive"
          /\ eq(heap', arr', other')
          /\ Contents(heap', other'.strings)
                = [i \in 1..Len(input.texts) |-> Append(input.texts[i], NUL)]]_vars

C22_Witness ==
    /\ ret.op = "from_iter_string"
    /\ ret.kind = "Ok"
    /\ Len(input.texts) = 2
    /\ input.texts[1] # input.texts[2]
    /\ eq(heap, arr, other)

\* the table of a has len() + 1 slots, the last null and no other
TableShape(h, a) ==
    /\ h[as_ptr(a)].kind = "table"
    /\ a.plen = len(a) + 1
    /\ Len(h[as_ptr(a)].data) = len(a) + 1
    /\ h[as_ptr(a)].data[len(a) + 1] = NULL
    /\ \A i \in 1..len(a) : h[as_ptr(a)].data[i] # NULL

ConvertedAfterNew ==
    /\ ret.op = "new"
    /\ ret.kind = "Ok"
    /\ ret'.op = "from_cstrings"

\* C30: for a non-empty input S of terminator-free texts, new(S) and
\* from_cstrings on S converted element by element give arrays that compare
\* equal, with the same len() and the same table shape, whose strings lie
\* in different storage.
C30_PathsAgree ==
    [][ConvertedAfterNew =>
          /\ ret'.kind = "Ok"
          /\ other'.state = "alive"
          /\ eq(heap', arr', other')
          /\ len(other') = len(arr')
          /\ TableShape(heap', arr')
          /\ TableShape(heap', other')
          /\ Range(other'.strings) \cap Range(arr'.strings) = {}]_vars

C30_Witness ==
    /\ ret.op = "from_cstrings"
    /\ input.path = "texts"
    /\ Len(input.texts) = 2
    /\ other.state = "alive"
    /\ eq(heap, arr, other)
    /\ TableShape(heap, other)

\* the byte strings new builds from its input
InputCStrings == [i \in 1..Len(input.texts) |-> Append(input.texts[i], NUL)]

\* C25: after foreign code has overwritten a slot of the table through the
\* as_mut_ptr() address, len, is_empty, get, iter, indexing, as_ref, ==,
\* hash, clone and into_strings still give what the owned strings say, and
\* a clone has a table of its own that points at its own strings.
C25_TableNotConsulted ==
    (threads.wrote # <<>> /\ ret.kind # "Err") =>
        /\ ret.op = "len" => ret.val = <<Len(input.texts)>>
        /\ ret.op = "is_empty" => ret.val = <<FALSE>>
        /\ ret.op \in {"get", "index"} =>
              IF ret.idx < Len(input.texts)
              THEN /\ ret.kind \in {"Some", "Ref"}
                   /\ Contents(heap, ret.val) = <<InputCStrings[ret.idx + 1]>>
              ELSE ret.kind \in {"None", "Panic"} /\ ret.val = <<>>
        /\ ret.op \in {"iter", "as_ref", "into_strings"} =>
              Contents(heap, ret.val) = InputCStrings
        /\ ret.op = "eq" => ret.val = <<TRUE>>
        /\ ret.op = "hash" => ret.val[1] = ret.val[2] /\ ret.idx = 1
        /\ ret.op = "clone" => ret.kind = "Ok"
        /\ other.state = "alive" =>
              /\ PointersValid(heap, other)
              /\ TableShape(heap, other)
              /\ Contents(heap, other.strings) = InputCStrings

C25_Witness ==
    /\ threads.wrote # <<>>
    /\ arr.state = "alive"
    /\ Slot(heap, as_ptr(arr), 0) = NULL
    /\ ret.op = "clone"
    /\ len(other) = 2
    /\ PointersValid(heap, other)
    /\ Slot(heap, as_ptr(other), 0) # NULL

\* C28: every alive array holds at least one string, so the copy clone()
\* hands to from_cstrings is never empty: clone returns an alive array of
\* the same length and the expect inside it does not panic.
C28_CloneNeverFaults ==
    /\ arr.state = "alive" => as_slice(arr) # <<>>
    /\ ret.op = "clone" =>
          /\ ret.kind # "Panic"
          /\ other.state = "alive"
          /\ Len(as_slice(other)) = Len(as_slice(arr))

C28_Witness ==
    /\ ret.op = "clone"
    /\ ret.kind = "Ok"
    /\ input.path = "cstrings"
    /\ len(arr) = 1
    /\ len(other) = 1

====
